---------------------------- MODULE Spec2Model ----------------------------
(***************************************************************************)
(* A model of parcel_extractor.py: the command-line pipeline main (parse   *)
(* the bounding box, re-project it, query the parcel service once, write   *)
(* the drawing, optionally export the metadata) and the two converters     *)
(* geojson_to_dxf and export_metadata.                                     *)
(*                                                                         *)
(* Python strings are sequences of one-character strings.  Coordinates are *)
(* integer-valued floats; a quotient is kept as a reduced fraction.        *)
(***************************************************************************)
EXTENDS Integers, Sequences, FiniteSets, TLC

VARIABLES
    argv,           \* the command line: --bbox, --zone, --out and the two
                    \* flags that change what is written (--fields and
                    \* --verbose keep their defaults)
    pc,             \* main's position
    locals,         \* main's local variables assigned so far
    requests,       \* the HTTP requests sent, in order, each with what came of it
    files,          \* the file system: path -> content written
    stdout,         \* click.echo(...) lines
    stderr,         \* click.echo(..., err=True) lines, usage errors, tracebacks
    exit_code,      \* -1 while running, else the process's exit status
    stages          \* the pipeline stages entered, in order

vars == <<argv, pc, locals, requests, files, stdout, stderr, exit_code, stages>>

(***************************************************************************)
(* Bounds of the model.                                                    *)
(***************************************************************************)
\* the most comma-separated tokens of a --bbox string
MaxTokens == 5
\* the most ring sets of a feature collection given to the converters
MaxRingSets == 3
\* the most ring sets of a feature collection the service answers with
MaxServiceRingSets == 1

(***************************************************************************)
(* Program constants.                                                      *)
(***************************************************************************)
STATE_PLANE == [north |-> 3734, south |-> 3735]
SERVICE_SRID == 3857
TIMEOUT == 60
LABEL_HEIGHT == 10

(***************************************************************************)
(* Strings.                                                                *)
(***************************************************************************)
Digits == <<"0", "1", "2", "3", "4", "5", "6", "7", "8", "9">>

DigitValue(c) == (CHOOSE i \in 1..10 : Digits[i] = c) - 1

IsDigit(c) == \E i \in 1..10 : Digits[i] = c

RECURSIVE Join(_, _)
\* sep.join(parts)
Join(parts, sep) ==
    IF parts = <<>> THEN <<>>
    ELSE IF Len(parts) = 1 THEN parts[1]
    ELSE parts[1] \o sep \o Join(Tail(parts), sep)

RECURSIVE SplitFrom(_, _, _, _)
\* the tokens of s from place start on, scanning from place i
SplitFrom(s, sep, start, i) ==
    IF i > Len(s) THEN <<SubSeq(s, start, Len(s))>>
    ELSE IF s[i] = sep
         THEN <<SubSeq(s, start, i - 1)>> \o SplitFrom(s, sep, i + 1, i + 1)
    ELSE SplitFrom(s, sep, start, i + 1)

\* str.split(sep) for a one-character separator: always at least one token
Split(s, sep) == SplitFrom(s, sep, 1, 1)

RECURSIVE DigitsValue(_, _)
\* the value of the first n digits of s
DigitsValue(s, n) ==
    IF n = 0 THEN 0 ELSE 10 * DigitsValue(s, n - 1) + DigitValue(s[n])

AllDigits(s) == s # <<>> /\ \A i \in 1..Len(s) : IsDigit(s[i])

\* s.find(c), 1-based; 0 when c is not in s
IndexOf(s, c) ==
    LET at == {i \in 1..Len(s) : s[i] = c}
    IN  IF at = {} THEN 0 ELSE CHOOSE i \in at : \A j \in at : i <= j

\* the digits before the point of an unsigned literal "ddd" or "ddd.000"
\* (a literal with a non-zero fraction has no integer value and is left out)
WholePart(s) ==
    LET i == IndexOf(s, ".")
    IN  IF i = 0 THEN s
        ELSE IF \A j \in (i + 1)..Len(s) : s[j] = "0" THEN SubSeq(s, 1, i - 1)
        ELSE <<>>

\* float(tok) on signed integer-valued decimal literals: the value, or
\* ValueError
ParseFloat(tok) ==
    LET signed == tok # <<>> /\ Head(tok) \in {"-", "+"}
        body   == WholePart(IF signed THEN Tail(tok) ELSE tok)
    IN  IF AllDigits(body)
        THEN [ok |-> TRUE,
              val |-> IF signed /\ Head(tok) = "-"
                      THEN 0 - DigitsValue(body, Len(body))
                      ELSE DigitsValue(body, Len(body))]
        ELSE [ok |-> FALSE, val |-> 0]

RECURSIVE NatToStr(_)
NatToStr(n) ==
    IF n < 10 THEN <<Digits[n + 1]>>
    ELSE Append(NatToStr(n \div 10), Digits[(n % 10) + 1])

\* f"{x}" of an integer-valued float
FormatFloat(x) ==
    (IF x < 0 THEN <<"-">> \o NatToStr(0 - x) ELSE NatToStr(x)) \o <<".", "0">>


(***************************************************************************)
(* pathlib: Path(p).name, .suffix and .with_suffix(s), on paths already in *)
(* normal form (no empty, "." or ".." component).                          *)
(***************************************************************************)
RECURSIVE LastIndexOf(_, _)
\* s.rfind(c), 1-based; 0 when c is not in s
LastIndexOf(s, c) ==
    IF s = <<>> THEN 0
    ELSE IF s[Len(s)] = c THEN Len(s)
    ELSE LastIndexOf(SubSeq(s, 1, Len(s) - 1), c)

PathName(p) == SubSeq(p, LastIndexOf(p, "/") + 1, Len(p))

PathParent(p) == SubSeq(p, 1, LastIndexOf(p, "/"))

\* the final component's last ".xyz", if the dot is neither first nor last
PathSuffix(p) ==
    LET name == PathName(p)
        i    == LastIndexOf(name, ".")
    IN  IF 1 < i /\ i < Len(name) THEN SubSeq(name, i, Len(name)) ELSE <<>>

with_suffix(p, suffix) ==
    LET name == PathName(p)
        old  == PathSuffix(p)
    IN  PathParent(p) \o SubSeq(name, 1, Len(name) - Len(old)) \o suffix

JsonSuffix == <<".", "j", "s", "o", "n">>

(***************************************************************************)
(* Quotients: sum(xs) / len(xs) as a reduced fraction.                     *)
(***************************************************************************)
Abs(n) == IF n < 0 THEN 0 - n ELSE n

RECURSIVE Gcd(_, _)
Gcd(a, b) == IF b = 0 THEN a ELSE Gcd(b, a % b)

\* n / d for d > 0
Quotient(n, d) ==
    LET g == Gcd(Abs(n), d)
    IN  [num |-> n \div g, den |-> d \div g]

Whole(n) == [num |-> n, den |-> 1]

RECURSIVE Sum(_)
Sum(xs) == IF xs = <<>> THEN 0 ELSE Head(xs) + Sum(Tail(xs))

(***************************************************************************)
(* geojson_to_dxf.                                                         *)
(***************************************************************************)
\* feat.get("properties", {})
PropertiesOf(feat) ==
    IF "properties" \in DOMAIN feat THEN feat.properties ELSE <<>>

\* props.get(key, default)
PropGet(props, key, default) ==
    IF key \in DOMAIN props THEN props[key] ELSE default

\* the truth value of props.get("PIN")
HasPin(props) == PropGet(props, "PIN", "") # ""

\* Polygon -> [coordinates]; anything else -> coordinates
RingsSetsOf(geom) ==
    IF geom.type = "Polygon" THEN <<geom.coordinates>> ELSE geom.coordinates

\* a variant that takes the last ring of the ring set
ExteriorOfLastRing(rings) == rings[Len(rings)]

\* exterior = rings[0]
ExteriorOf(rings) == rings[1]

Polyline(exterior) ==
    [type |-> "LWPOLYLINE", points |-> exterior, closed |-> TRUE,
     layer |-> "PARCELS"]

\* a variant that leaves a repeated closing vertex out of the mean
CentroidOfOpenRing(exterior) ==
    LET open == IF Len(exterior) > 1 /\ exterior[Len(exterior)] = exterior[1]
                THEN SubSeq(exterior, 1, Len(exterior) - 1) ELSE exterior
        x_coords == [i \in 1..Len(open) |-> open[i][1]]
        y_coords == [i \in 1..Len(open) |-> open[i][2]]
    IN  <<Quotient(Sum(x_coords), Len(x_coords)),
          Quotient(Sum(y_coords), Len(y_coords))>>

\* (sum(x_coords) / len(x_coords), sum(y_coords) / len(y_coords))
Centroid(exterior) ==
    LET x_coords == [i \in 1..Len(exterior) |-> exterior[i][1]]
        y_coords == [i \in 1..Len(exterior) |-> exterior[i][2]]
    IN  <<Quotient(Sum(x_coords), Len(x_coords)),
          Quotient(Sum(y_coords), Len(y_coords))>>

Label(props, exterior) ==
    [type |-> "TEXT",
     text |-> <<"PIN: ", PropGet(props, "PIN", ""),
                "\nOwner: ", PropGet(props, "OWNER1", "")>>,
     layer |-> "LABELS", height |-> LABEL_HEIGHT, insert |-> Centroid(exterior)]

\* one pass of the loop over rings_sets: the entities added for one ring set
RingSetEntities(rings, props, include_attributes) ==
    <<Polyline(ExteriorOf(rings))>>
    \o (IF include_attributes /\ HasPin(props)
        THEN <<Label(props, ExteriorOf(rings))>> ELSE <<>>)

RECURSIVE RingsSetsEntities(_, _, _)
RingsSetsEntities(rings_sets, props, include_attributes) ==
    IF rings_sets = <<>> THEN <<>>
    ELSE RingSetEntities(Head(rings_sets), props, include_attributes)
         \o RingsSetsEntities(Tail(rings_sets), props, include_attributes)

\* one pass of the loop over geojson["features"]
FeatureEntities(feat, include_attributes) ==
    RingsSetsEntities(RingsSetsOf(feat.geometry), PropertiesOf(feat),
                      include_attributes)

RECURSIVE FeaturesEntities(_, _)
FeaturesEntities(features, include_attributes) ==
    IF features = <<>> THEN <<>>
    ELSE FeatureEntities(Head(features), include_attributes)
         \o FeaturesEntities(Tail(features), include_attributes)

\* the layers added to a new document
DocLayers(include_attributes) ==
    {"PARCELS"} \cup (IF include_attributes THEN {"LABELS"} ELSE {})

\* the document geojson_to_dxf hands to doc.saveas(dxf_path)
geojson_to_dxf(geojson, include_attributes) ==
    [format   |-> "dxf",
     layers   |-> DocLayers(include_attributes),
     entities |-> FeaturesEntities(geojson.features, include_attributes)]

(***************************************************************************)
(* export_metadata.                                                        *)
(***************************************************************************)
\* the document export_metadata hands to json.dump
export_metadata(geojson) ==
    [format        |-> "json",
     total_parcels |-> Len(geojson.features),
     parcels       |-> [i \in 1..Len(geojson.features) |->
                            PropertiesOf(geojson.features[i])]]

(***************************************************************************)
(* Feature collections, by their number of ring sets.                      *)
(***************************************************************************)
Square == <<<<0, 0>>, <<10, 0>>, <<10, 10>>, <<0, 10>>, <<0, 0>>>>
Triangle == <<<<0, 0>>, <<4, 0>>, <<0, 3>>>>
Hole == <<<<1, 1>>, <<2, 1>>, <<1, 2>>, <<1, 1>>>>

\* a ring set: the exterior ring, then the holes
RingSetChoices == {<<Square>>, <<Triangle, Hole>>}

PropertiesChoices ==
    {[PIN |-> "P1", OWNER1 |-> "Ann"], [PIN |-> "", OWNER1 |-> "Bob"],
     [OWNER1 |-> "Cy"]}

RECURSIVE SeqsOfLen(_, _)
SeqsOfLen(S, n) ==
    IF n = 0 THEN {<<>>}
    ELSE {<<x>> \o t : x \in S, t \in SeqsOfLen(S, n - 1)}

\* the geometries made of exactly k ring sets
GeometriesOf(k) ==
    {[type |-> "MultiPolygon", coordinates |-> c] : c \in SeqsOfLen(RingSetChoices, k)}
    \cup (IF k = 1
          THEN {[type |-> "Polygon", coordinates |-> r] : r \in RingSetChoices}
          ELSE {})

\* the features made of exactly k ring sets, with or without "properties"
FeaturesOf(k) ==
    {[type |-> "Feature", geometry |-> g, properties |-> p] :
        g \in GeometriesOf(k), p \in PropertiesChoices}
    \cup {[type |-> "Feature", geometry |-> g] : g \in GeometriesOf(k)}

\* the features of exactly k ring sets the service answers with: PIN is among
\* the fields asked for, so each carries one, possibly empty
ServiceFeaturesOf(k) ==
    {f \in FeaturesOf(k) : "properties" \in DOMAIN f /\ "PIN" \in DOMAIN f.properties}

RECURSIVE ServiceFeatureLists(_)
\* the feature lists of the service with exactly n ring sets in all
ServiceFeatureLists(n) ==
    IF n = 0 THEN {<<>>}
    ELSE UNION {{<<f>> \o rest : f \in ServiceFeaturesOf(k),
                                 rest \in ServiceFeatureLists(n - k)} : k \in 1..n}

FeatureCollection(features) == [type |-> "FeatureCollection", features |-> features]

(***************************************************************************)
(* The command line.                                                       *)
(***************************************************************************)
North == <<"n", "o", "r", "t", "h">>
South == <<"s", "o", "u", "t", "h">>

\* STATE_PLANE, keyed by the zone string
StatePlaneOf == (North :> STATE_PLANE.north) @@ (South :> STATE_PLANE.south)

LowerChar(c) ==
    CASE c = "N" -> "n" [] c = "O" -> "o" [] c = "R" -> "r" [] c = "T" -> "t"
      [] c = "H" -> "h" [] c = "S" -> "s" [] c = "U" -> "u" [] c = "E" -> "e"
      [] c = "A" -> "a" [] OTHER -> c

\* str.lower()
Lower(s) == [i \in 1..Len(s) |-> LowerChar(s[i])]

\* click.Choice(["north", "south"], case_sensitive=False): the choice matched
ZoneChoice(z) ==
    IF Lower(z) \in DOMAIN StatePlaneOf
    THEN [ok |-> TRUE, val |-> Lower(z)] ELSE [ok |-> FALSE, val |-> z]

BboxTokens == {<<>>, <<"-", "3">>, <<"1", "2">>, <<"x">>}

BboxStrings ==
    {Join(ts, <<",">>) : ts \in UNION {SeqsOfLen(BboxTokens, n) : n \in 1..MaxTokens}}

ZoneStrings == {North, <<"S", "o", "u", "t", "h">>, <<"e", "a", "s", "t">>}

OutPaths ==
    {<<"p", ".", "d", "x", "f">>, <<"p", ".", "j", "s", "o", "n">>,
     <<"d", ".", "x", "/", "p">>}

CommandLines ==
    [bbox : BboxStrings, zone : ZoneStrings, out : OutPaths,
     include_labels : BOOLEAN, export_metadata : BOOLEAN]

(***************************************************************************)
(* bbox_stateplane_to_service.                                             *)
(***************************************************************************)
Min(a, b) == IF a <= b THEN a ELSE b
Max(a, b) == IF a >= b THEN a ELSE b

\* Transformer.from_crs(STATE_PLANE[zone], SERVICE_SRID, always_xy=True): the
\* library's projection, of which only the direction of each axis is modelled
Transformers(zone) ==
    [src : {StatePlaneOf[zone]}, dst : {SERVICE_SRID}, sx : {1, -1}, sy : {1, -1}]

\* transformer.transform(x, y)
Transform(t, x, y) == <<t.sx * x, t.sy * y>>

\* a variant that returns the two transformed corners as they come
bbox_corners_unordered(bbox, t) ==
    LET p0 == Transform(t, bbox[1], bbox[2])
        p1 == Transform(t, bbox[3], bbox[4])
    IN  <<p0[1], p0[2], p1[1], p1[2]>>

bbox_stateplane_to_service(bbox, t) ==
    LET p0 == Transform(t, bbox[1], bbox[2])
        p1 == Transform(t, bbox[3], bbox[4])
    IN  <<Min(p0[1], p1[1]), Min(p0[2], p1[2]),
          Max(p0[1], p1[1]), Max(p0[2], p1[2])>>

(***************************************************************************)
(* main.                                                                   *)
(***************************************************************************)
Exit(code) == pc' = "exited" /\ exit_code' = code

\* click.echo(text), once per text
Echo(texts) == stdout' = stdout \o [i \in 1..Len(texts) |-> [text |-> texts[i]]]

EchoErr(line) == stderr' = Append(stderr, line)

Init ==
    /\ argv \in CommandLines
    /\ pc = "click"
    /\ locals = <<>>
    /\ requests = <<>>
    /\ files = <<>>
    /\ stdout = <<>>
    /\ stderr = <<>>
    /\ exit_code = -1
    /\ stages = <<>>

\* click converts --zone before main runs; a bad value is a usage error
ClickParse ==
    /\ pc = "click"
    /\ IF ZoneChoice(argv.zone).ok
       THEN /\ pc' = "parse"
            /\ locals' = [zone |-> ZoneChoice(argv.zone).val]
            /\ UNCHANGED <<stderr, exit_code>>
       ELSE /\ EchoErr([error |-> "UsageError", text |-> "Invalid value for '--zone'"])
            /\ Exit(2)
            /\ UNCHANGED locals
    /\ UNCHANGED <<argv, requests, files, stdout, stages>>

\* a variant that converts the first four tokens and ignores any others
BboxValueErrorFirstFour(bbox) ==
    LET toks == Split(bbox, ",")
    IN  \/ Len(toks) < 4
        \/ \E i \in 1..4 : ~ParseFloat(toks[i]).ok

\* xmin, ymin, xmax, ymax = map(float, bbox.split(",")) raises ValueError, or
\* the token count checked after it is not 4
BboxValueError(bbox) ==
    LET toks == Split(bbox, ",")
    IN  \/ Len(toks) # 4
        \/ \E i \in 1..Len(toks) : i <= 5 /\ ~ParseFloat(toks[i]).ok

BboxValues(bbox) ==
    LET toks == Split(bbox, ",")
    IN  [i \in 1..4 |-> ParseFloat(toks[i]).val]

ParseBbox ==
    /\ pc = "parse"
    /\ stages' = Append(stages, "parse")
    /\ IF BboxValueError(argv.bbox)
       THEN /\ EchoErr([error |-> "InvalidArgument",
                        text |-> "--bbox must be four comma-separated numbers"])
            /\ Exit(1)
            /\ UNCHANGED locals
       ELSE /\ locals' = locals @@ [bbox |-> BboxValues(argv.bbox)]
            /\ pc' = "reproject"
            /\ UNCHANGED <<stderr, exit_code>>
    /\ UNCHANGED <<argv, requests, files, stdout>>

Reproject ==
    /\ pc = "reproject"
    /\ stages' = Append(stages, "reproject")
    /\ \E t \in Transformers(locals.zone) :
          /\ locals' = locals @@
                [env_service |-> bbox_stateplane_to_service(locals.bbox, t)]
          /\ Echo(<<"Re-projecting bounding box">>)
    /\ pc' = "fetch"
    /\ UNCHANGED <<argv, requests, files, stderr, exit_code>>

\* the request fetch_parcels sends (--fields is left at its default)
QueryRequest(env_service, zone) ==
    [url     |-> "SERVICE_URL",
     timeout |-> TIMEOUT,
     params  |-> [f |-> "geojson",
                  geometryType |-> "esriGeometryEnvelope",
                  geometry |-> Join([i \in 1..4 |-> FormatFloat(env_service[i])],
                                    <<",">>),
                  inSR |-> SERVICE_SRID,
                  outSR |-> StatePlaneOf[zone],
                  outFields |-> "PIN,OWNER1,OWNER2,ADDRESS,CITY,STATE,ZIP,ACRES",
                  returnGeometry |-> "true",
                  where |-> "1=1"]]

\* what a parseable response body may be: a feature collection, or an object
\* with no "features" member
ServiceAnswers ==
    {FeatureCollection(fs) :
        fs \in UNION {ServiceFeatureLists(n) : n \in 0..MaxServiceRingSets}}
    \cup {[type |-> "FeatureCollection"]}

\* requests.get(SERVICE_URL, params=params, timeout=60), and how it ends
SendQuery(outcome) ==
    /\ pc = "fetch"
    /\ stages' = Append(stages, "fetch")
    /\ requests' = Append(requests,
                          [request |-> QueryRequest(locals.env_service, locals.zone),
                           outcome |-> outcome])

\* a variant that reports the failure and sends the query again
FetchFailsAndRetries ==
    /\ \E cause \in {"Timeout", "ConnectionError", "HTTPError"} :
          /\ SendQuery(cause)
          /\ EchoErr([error |-> "NetworkError", text |-> "Error fetching parcels",
                      cause |-> cause])
    /\ Echo(<<"Querying ODNR parcel service">>)
    /\ UNCHANGED <<pc, exit_code, argv, locals, files>>

\* requests.get or raise_for_status raises a RequestException
FetchFails ==
    /\ \E cause \in {"Timeout", "ConnectionError", "HTTPError"} :
          /\ SendQuery(cause)
          /\ EchoErr([error |-> "NetworkError", text |-> "Error fetching parcels",
                      cause |-> cause])
    /\ Echo(<<"Querying ODNR parcel service">>)
    /\ Exit(1)
    /\ UNCHANGED <<argv, locals, files>>

\* r.json() raises: requests' JSONDecodeError is a RequestException too, so
\* the first handler takes it; a plain json.JSONDecodeError reaches the second
FetchUnparseable ==
    /\ SendQuery("BadBody")
    /\ \E text \in {"Error fetching parcels", "Error parsing response"} :
          EchoErr([error |-> "ResponseFormatError", text |-> text,
                   cause |-> "JSONDecodeError"])
    /\ Echo(<<"Querying ODNR parcel service">>)
    /\ Exit(1)
    /\ UNCHANGED <<argv, locals, files>>

FetchAnswers ==
    /\ SendQuery("OK")
    /\ \E gj \in ServiceAnswers : locals' = locals @@ [gj |-> gj]
    /\ Echo(<<"Querying ODNR parcel service">>)
    /\ pc' = "check"
    /\ UNCHANGED <<argv, files, stderr, exit_code>>

\* a variant that only looks for the "features" member
NoFeaturesMember(gj) == "features" \notin DOMAIN gj

\* not gj.get("features")
NoFeatures(gj) == "features" \notin DOMAIN gj \/ gj.features = <<>>

\* the stream the "No parcels found" line is echoed to
EmptyResultReport(line) == stdout' = Append(stdout, line) /\ UNCHANGED stderr

CheckFeatures ==
    /\ pc = "check"
    /\ stages' = Append(stages, "check")
    /\ IF NoFeatures(locals.gj)
       THEN /\ EmptyResultReport([error |-> "EmptyResultError",
                                  text |-> "No parcels found"])
            /\ Exit(1)
            /\ UNCHANGED locals
       ELSE /\ locals' = locals @@ [parcel_count |-> Len(locals.gj.features)]
            /\ Echo(<<"Found parcels">>)
            /\ pc' = "build"
            /\ UNCHANGED <<stderr, exit_code>>
    /\ UNCHANGED <<argv, requests, files>>

\* open(path, "w") and write: the file now holds content
WriteFile(path, content) ==
    files' = [q \in DOMAIN files \cup {path} |->
                 IF q = path THEN content ELSE files[q]]

\* an uncaught exception: Python prints the traceback and exits 1
Uncaught(exception) ==
    /\ EchoErr([error |-> exception, text |-> "Traceback"])
    /\ Exit(1)

BuildDxf ==
    /\ pc = "build"
    /\ stages' = Append(stages, "build")
    /\ WriteFile(argv.out, geojson_to_dxf(locals.gj, argv.include_labels))
    /\ Echo(<<"Building DXF file", "Saved">>)
    /\ pc' = "metadata"
    /\ UNCHANGED <<argv, locals, requests, stderr, exit_code>>

\* doc.saveas(dxf_path) cannot write the file
BuildDxfWriteFails ==
    /\ pc = "build"
    /\ stages' = Append(stages, "build")
    /\ Echo(<<"Building DXF file">>)
    /\ Uncaught("IOError")
    /\ UNCHANGED <<argv, locals, requests, files>>

\* inside main the name export_metadata is main's parameter (the flag), which
\* hides the module's function of that name
ExportMetadataName == argv.export_metadata

\* if export_metadata: metadata_file = ...; export_metadata(gj, metadata_file)
ExportMetadata ==
    /\ pc = "metadata"
    /\ IF ExportMetadataName
       THEN /\ stages' = Append(stages, "metadata")
            /\ locals' = locals @@
                  [metadata_file |-> with_suffix(argv.out, JsonSuffix)]
            \* calling the flag, a bool: TypeError
            /\ Uncaught("TypeError")
       ELSE /\ pc' = "summary"
            /\ UNCHANGED <<stages, locals, stderr, exit_code>>
    /\ UNCHANGED <<argv, requests, files, stdout>>

\* main returns: nothing more is printed without --verbose
Summary ==
    /\ pc = "summary"
    /\ Exit(0)
    /\ UNCHANGED <<argv, locals, requests, files, stdout, stderr, stages>>

Next ==
    \/ ClickParse
    \/ ParseBbox
    \/ Reproject
    \/ FetchFails
    \/ FetchUnparseable
    \/ FetchAnswers
    \/ CheckFeatures
    \/ BuildDxf
    \/ BuildDxfWriteFails
    \/ ExportMetadata
    \/ Summary

Spec == Init /\ [][Next]_vars

(***************************************************************************)
(* The two converters called on their own, on every feature collection of  *)
(* at most MaxRingSets ring sets; the caller builds the collection one     *)
(* feature at a time and then calls one of them.                           *)
(***************************************************************************)
DxfPath == <<"t", ".", "d", "x", "f">>
JsonPath == <<"t", ".", "j", "s", "o", "n">>

RECURSIVE RingSetCount(_)
RingSetCount(features) ==
    IF features = <<>> THEN 0
    ELSE Len(RingsSetsOf(Head(features).geometry)) + RingSetCount(Tail(features))

InitFn ==
    /\ argv \in [geojson : {FeatureCollection(<<>>)}, include_attributes : BOOLEAN]
    /\ pc = "call"
    /\ locals = <<>>
    /\ requests = <<>>
    /\ files = <<>>
    /\ stdout = <<>>
    /\ stderr = <<>>
    /\ exit_code = -1
    /\ stages = <<>>

\* the caller adds one more feature to the collection it will pass
AddFeature ==
    /\ pc = "call"
    /\ \E k \in 1..(MaxRingSets - RingSetCount(argv.geojson.features)) :
          \E feat \in FeaturesOf(k) :
             argv' = [argv EXCEPT !.geojson.features = Append(@, feat)]
    /\ UNCHANGED <<pc, locals, requests, files, stdout, stderr, exit_code, stages>>

\* geojson_to_dxf(geojson, dxf_path, include_attributes)
CallGeojsonToDxf ==
    /\ pc = "call"
    /\ WriteFile(DxfPath, geojson_to_dxf(argv.geojson, argv.include_attributes))
    /\ pc' = "dxf_saved"
    /\ UNCHANGED <<argv, locals, requests, stdout, stderr, exit_code, stages>>

\* export_metadata(geojson, output_path)
CallExportMetadata ==
    /\ pc = "call"
    /\ WriteFile(JsonPath, export_metadata(argv.geojson))
    /\ pc' = "metadata_saved"
    /\ UNCHANGED <<argv, locals, requests, stdout, stderr, exit_code, stages>>

NextFn == AddFeature \/ CallGeojsonToDxf \/ CallExportMetadata

SpecFn == InitFn /\ [][NextFn]_vars

(***************************************************************************)
(* Properties of main (checked under Spec).                                *)
(***************************************************************************)
HasError(stream, kind) ==
    \E i \in 1..Len(stream) : "error" \in DOMAIN stream[i] /\ stream[i].error = kind

ErrorLines(stream) ==
    {i \in 1..Len(stream) : "error" \in DOMAIN stream[i]}

RequestFailed ==
    \E i \in 1..Len(requests) :
        requests[i].outcome \in {"Timeout", "ConnectionError", "HTTPError"}

\* C1: once the HTTP request of a run has failed (timeout, connection error
\* or error status), the failure is reported, the process has exited with a
\* non-zero status, that request is the only one sent, and no file (drawing
\* or metadata) has been written.
C1_FailedRequestEndsRun ==
    RequestFailed =>
        /\ pc = "exited"
        /\ exit_code \notin {-1, 0}
        /\ Len(requests) = 1
        /\ files = <<>>
        /\ Cardinality(ErrorLines(stderr)) = 1
        /\ HasError(stderr, "NetworkError")

C1_Witness ==
    /\ pc = "exited"
    /\ Len(requests) = 1
    /\ requests[1].outcome = "Timeout"
    /\ argv.export_metadata

ZeroFeatures(gj) ==
    IF "features" \in DOMAIN gj THEN Len(gj.features) = 0 ELSE TRUE

\* C2: when the response parsed but holds no feature (an empty list, or no
\* feature list at all), no file is ever written, the build stage is never
\* entered, and the run ends reporting the empty result with a non-zero
\* exit status.
C2_EmptyResultWritesNothing ==
    ("gj" \in DOMAIN locals /\ ZeroFeatures(locals.gj)) =>
        /\ files = <<>>
        /\ pc \in {"check", "exited"}
        /\ \A i \in 1..Len(stages) : stages[i] \notin {"build", "metadata"}
        /\ pc = "exited" =>
              /\ exit_code \notin {-1, 0}
              /\ HasError(stdout, "EmptyResultError")
                    \/ HasError(stderr, "EmptyResultError")

C2_Witness ==
    /\ pc = "exited"
    /\ "gj" \in DOMAIN locals
    /\ "features" \in DOMAIN locals.gj
    /\ locals.gj.features = <<>>
    /\ argv.export_metadata

\* the numeric tokens a --bbox string of the model may hold, with their values
NumericLiterals ==
    {[text |-> <<"-", "3">>, val |-> 0 - 3], [text |-> <<"1", "2">>, val |-> 12]}

\* the ways to read bbox as four numeric tokens joined by commas (one or none);
\* such a string holds exactly three commas
FourNumbers(bbox) ==
    IF Cardinality({i \in 1..Len(bbox) : bbox[i] = ","}) # 3 THEN {}
    ELSE {q \in [1..4 -> NumericLiterals] :
            bbox = q[1].text \o <<",">> \o q[2].text \o <<",">> \o q[3].text
                   \o <<",">> \o q[4].text}

\* C5: when main has parsed --bbox: if the string is four numeric tokens
\* joined by commas, main holds their four values in order and is about to
\* re-project them; otherwise the invalid-argument error is reported, the
\* exit status is non-zero, and no re-projection, request or file write has
\* happened.
C5_BboxParsedOrRejected ==
    stages = <<"parse">> =>
        IF FourNumbers(argv.bbox) # {}
        THEN /\ "bbox" \in DOMAIN locals
             /\ \A q \in FourNumbers(argv.bbox) :
                   locals.bbox = <<q[1].val, q[2].val, q[3].val, q[4].val>>
             /\ pc = "reproject"
             /\ exit_code = -1
        ELSE /\ pc = "exited"
             /\ exit_code \notin {-1, 0}
             /\ Len(stderr) = 1
             /\ HasError(stderr, "InvalidArgument")
             /\ stages = <<"parse">>
             /\ "env_service" \notin DOMAIN locals
             /\ requests = <<>>
             /\ files = <<>>

C5_Witness ==
    /\ pc = "exited"
    /\ stages = <<"parse">>
    /\ Len(Split(argv.bbox, ",")) = 5
    /\ \A i \in 1..4 : Split(argv.bbox, ",")[i] \in {<<"-", "3">>, <<"1", "2">>}

C5_WitnessAccepted ==
    /\ pc = "reproject"
    /\ locals.bbox = <<12, 12, 0 - 3, 0 - 3>>

\* C6: the tuple bbox_stateplane_to_service returned has xmin <= xmax and
\* ymin <= ymax, whatever the order of the input corners and the zone, and
\* the envelope of the query, when it has just been sent, reads back as
\* exactly that tuple.
C6_EnvelopeOrdered ==
    /\ "env_service" \in DOMAIN locals =>
          /\ locals.env_service[1] <= locals.env_service[3]
          /\ locals.env_service[2] <= locals.env_service[4]
    /\ (stages # <<>> /\ stages[Len(stages)] = "fetch") =>
          /\ Len(requests) = 1
          /\ LET toks == Split(requests[1].request.params.geometry, ",")
              IN  /\ Len(toks) = 4
                  /\ \A j \in 1..4 :
                        ParseFloat(toks[j]) = [ok |-> TRUE, val |-> locals.env_service[j]]

\* the documented example's shape: xmin < xmax and ymin > ymax, zone south
C6_Witness ==
    /\ Len(requests) = 1
    /\ stages[Len(stages)] = "fetch"
    /\ locals.zone = South
    /\ locals.bbox[1] < locals.bbox[3]
    /\ locals.bbox[2] > locals.bbox[4]

\* C7: when the run has ended: no error line is on standard output; an exit
\* status of 0 comes with no error reported; the empty result, like the
\* other terminal errors, is reported on the error stream; and a reported
\* error is reported once and comes with a non-zero exit status.
C7_ErrorsOnErrorStreamOnce ==
    pc = "exited" =>
        /\ ErrorLines(stdout) = {}
        /\ exit_code = 0 => ErrorLines(stderr) = {}
        /\ ErrorLines(stderr) # {} =>
              Cardinality(ErrorLines(stderr)) = 1 /\ exit_code # 0
        /\ ("gj" \in DOMAIN locals /\ ZeroFeatures(locals.gj)) =>
              HasError(stderr, "EmptyResultError")
        /\ RequestFailed => HasError(stderr, "NetworkError")

\* C8: the metadata path main derives from --out has the drawing path's base
\* name and another extension, so it is never the drawing path itself.
C8_MetadataPathDiffers ==
    "metadata_file" \in DOMAIN locals =>
        /\ locals.metadata_file # argv.out
        /\ PathSuffix(locals.metadata_file) # PathSuffix(argv.out)
        /\ PathParent(locals.metadata_file) = PathParent(argv.out)

\* C10 (main's part): a run with --export-metadata that saved the drawing
\* ends with the metadata document of its feature collection written:
\* total_parcels is the number of features and parcels holds one attribute
\* mapping per feature; and a metadata document is only ever written with
\* the flag set and after the drawing.
C10_MainExportsMetadata ==
    /\ \A path \in DOMAIN files :
          files[path].format = "json" =>
              /\ argv.export_metadata
              /\ \E i \in 1..Len(stages) : stages[i] = "build"
    /\ (pc = "exited" /\ argv.export_metadata
            /\ \E i \in 1..Len(stages) : stages[i] = "metadata") =>
          \E path \in DOMAIN files :
              /\ files[path].format = "json"
              /\ files[path].total_parcels = Len(locals.gj.features)
              /\ Len(files[path].parcels) = Len(locals.gj.features)

(***************************************************************************)
(* Properties of the converters (checked under SpecFn).                    *)
(***************************************************************************)
RECURSIVE ClaimRingSets(_)
\* every ring set of the features, in order: a Polygon's one, a
\* MultiPolygon's one per member polygon
ClaimRingSets(features) ==
    IF features = <<>> THEN <<>>
    ELSE LET g == Head(features).geometry
         IN  (IF g.type = "Polygon" THEN <<g.coordinates>> ELSE g.coordinates)
             \o ClaimRingSets(Tail(features))

IsPolyline(e) == e.type = "LWPOLYLINE"

IsText(e) == e.type = "TEXT"

Drawing == files[DxfPath]

\* C3: the drawing holds exactly one polyline per ring set, in order, each
\* closed, on the PARCELS layer and with the points of ring 0 of its ring
\* set unchanged; no other ring gives an entity.  One Polygon followed by
\* one MultiPolygon of two member polygons gives 3 polylines.
C3_OnePolylinePerRingSet ==
    pc = "dxf_saved" =>
        LET lines == SelectSeq(Drawing.entities, IsPolyline)
            sets  == ClaimRingSets(argv.geojson.features)
            feats == argv.geojson.features
        IN  /\ Len(lines) = Len(sets)
            /\ \A i \in 1..Len(lines) :
                  /\ lines[i].points = sets[i][1]
                  /\ lines[i].closed
                  /\ lines[i].layer = "PARCELS"
            /\ \A i \in 1..Len(Drawing.entities) :
                  IsPolyline(Drawing.entities[i]) \/ IsText(Drawing.entities[i])
            /\ (/\ Len(feats) = 2
                /\ feats[1].geometry.type = "Polygon"
                /\ feats[2].geometry.type = "MultiPolygon"
                /\ Len(feats[2].geometry.coordinates) = 2) => Len(lines) = 3

C3_Witness ==
    /\ pc = "dxf_saved"
    /\ Len(argv.geojson.features) = 2
    /\ argv.geojson.features[1].geometry =
          [type |-> "Polygon", coordinates |-> <<Square>>]
    /\ argv.geojson.features[2].geometry.type = "MultiPolygon"
    /\ Len(argv.geojson.features[2].geometry.coordinates) = 2
    /\ argv.geojson.features[2].geometry.coordinates[1] = <<Triangle, Hole>>
    /\ Len(SelectSeq(Drawing.entities, IsPolyline)) = 3

RECURSIVE CoordSum(_, _)
CoordSum(ring, axis) ==
    IF ring = <<>> THEN 0 ELSE Head(ring)[axis] + CoordSum(Tail(ring), axis)

\* the number of polylines among the first n entities
PolylinesUpTo(entities, n) ==
    Cardinality({j \in 1..n : IsPolyline(entities[j])})

\* the exterior ring the label at place i of the drawing was made for
LabelledRing(i) ==
    ClaimRingSets(argv.geojson.features)[PolylinesUpTo(Drawing.entities, i)][1]

IsMeanOf(q, ring, axis) ==
    q.den > 0 /\ q.num * Len(ring) = CoordSum(ring, axis) * q.den

LabelsAtMean ==
    \A i \in 1..Len(Drawing.entities) :
        IsText(Drawing.entities[i]) =>
            /\ IsMeanOf(Drawing.entities[i].insert[1], LabelledRing(i), 1)
            /\ IsMeanOf(Drawing.entities[i].insert[2], LabelledRing(i), 2)

SquareLabelsAt(x, y) ==
    \A i \in 1..Len(Drawing.entities) :
        (IsText(Drawing.entities[i]) /\ LabelledRing(i) = Square) =>
            Drawing.entities[i].insert = <<Whole(x), Whole(y)>>

\* C4 as claimed: every label is placed at the unweighted mean of all the
\* vertices of its exterior ring, the repeated closing vertex included, and
\* for the square ring [(0,0),(10,0),(10,10),(0,10),(0,0)] that is (5,5).
C4_SquareLabelAtFiveFive ==
    pc = "dxf_saved" => (LabelsAtMean /\ SquareLabelsAt(5, 5))

\* C4 as amended: every label is placed at the unweighted mean of all the
\* vertices of its exterior ring, the repeated closing vertex included, and
\* for the square ring [(0,0),(10,0),(10,10),(0,10),(0,0)] that is (4,4).
C4_LabelAtVertexMean ==
    pc = "dxf_saved" => (LabelsAtMean /\ SquareLabelsAt(4, 4))

C4_Witness ==
    /\ pc = "dxf_saved"
    /\ argv.include_attributes
    /\ \E i \in 1..Len(Drawing.entities) :
          /\ IsText(Drawing.entities[i])
          /\ LabelledRing(i) = Square
          /\ Drawing.entities[i].text[2] = "P1"

\* the features that carry a non-empty PIN
PinnedFeatures(features) ==
    {i \in 1..Len(features) :
        /\ "properties" \in DOMAIN features[i]
        /\ "PIN" \in DOMAIN features[i].properties
        /\ features[i].properties.PIN # ""}

\* C9: with labels on, the drawing holds exactly one text entity per feature
\* with a non-empty PIN, Polygon or MultiPolygon alike, each on the LABELS
\* layer; with labels off it holds no text entity and no LABELS layer.
C9_OneLabelPerFeature ==
    pc = "dxf_saved" =>
        LET texts == SelectSeq(Drawing.entities, IsText)
        IN  IF argv.include_attributes
            THEN /\ Len(texts) = Cardinality(PinnedFeatures(argv.geojson.features))
                 /\ \A i \in 1..Len(texts) : texts[i].layer = "LABELS"
            ELSE texts = <<>> /\ "LABELS" \notin Drawing.layers

\* export_metadata called directly (not through main): the file holds the
\* number of features and one attribute mapping per feature, in feature
\* order, an empty one for a feature without properties, and no geometry.
ExportMetadataDocument ==
    pc = "metadata_saved" =>
        LET doc   == files[JsonPath]
            feats == argv.geojson.features
        IN  /\ DOMAIN doc = {"format", "total_parcels", "parcels"}
            /\ doc.total_parcels = Len(feats)
            /\ Len(doc.parcels) = Len(feats)
            /\ \A i \in 1..Len(feats) :
                  doc.parcels[i] = IF "properties" \in DOMAIN feats[i]
                                   THEN feats[i].properties ELSE <<>>
            /\ feats = <<>> => doc.parcels = <<>>

ExportMetadataDocumentReached ==
    pc = "metadata_saved" /\ Len(argv.geojson.features) = 3

=============================================================================
